---- MODULE Spec2Model ----
(***************************************************************************)
(* A model of copy_data.py: the spreadsheet mapping loader, the longest-   *)
(* prefix pattern matcher, the four-level source walker and the copy loop. *)
(* Text is a sequence of one-character strings, so that prefix tests,      *)
(* trimming and the regular expressions are computed character by          *)
(* character.                                                              *)
(***************************************************************************)
EXTENDS Integers, Sequences, FiniteSets, TLC

VARIABLES
    rows,           \* the rows of the active sheet of the workbook
    env,            \* what exists: source root, mapping file, openpyxl
    args,           \* the command line flags dry_run and skip_existing
    tree,           \* the source tree: nodes [path, kind] below source_root
    dest0,          \* the destination files before the run
    pc,             \* where the program is
    mapping,        \* the loaded dict, <<key, value>> in insertion order
    gen,            \* the suspended generator iter_source_files
    item,           \* the tuple the generator has yielded to the loop body
    level1_name,    \* the name handed to match_mapping
    mapped_level1,  \* what match_mapping returned
    dest_files,     \* destination files: path -> content
    dest_dirs,      \* destination directories
    copied_count,   \* the running counter of copy_files
    out,            \* the lines printed
    exit_status,    \* -1 while running, else the exit status of the process
    yielded,        \* history: the tuples the generator has yielded
    copy_log        \* history: the copies shutil.copy2 has completed

vars == <<rows, env, args, tree, dest0, pc, mapping, gen, item, level1_name,
          mapped_level1, dest_files, dest_dirs, copied_count, out, exit_status,
          yielded, copy_log>>

\* ------------------------------------------------------------------ bounds
MaxRows == 3

MaxFiles == 2

\* ------------------------------------------------------------------- text
Range(s) == {s[i] : i \in 1..Len(s)}

\* str.isspace() characters used by str.strip()
Whitespace == {" ", "\t", "\n"}

\* Python's Optional: None, or a value
NoneVal == [isNone |-> TRUE, val |-> <<>>]

Some(v) == [isNone |-> FALSE, val |-> v]

\* str.startswith(prefix)
startswith(s, prefix) ==
    /\ Len(prefix) <= Len(s)
    /\ \A i \in 1..Len(prefix) : s[i] = prefix[i]

RECURSIVE rstrip(_, _)
\* str.rstrip(chars): drop every trailing character that is in chars
rstrip(s, chars) ==
    IF s # <<>> /\ s[Len(s)] \in chars
    THEN rstrip(SubSeq(s, 1, Len(s) - 1), chars)
    ELSE s

RECURSIVE lstrip(_, _)
\* str.lstrip(chars): drop every leading character that is in chars
lstrip(s, chars) ==
    IF s # <<>> /\ s[1] \in chars
    THEN lstrip(Tail(s), chars)
    ELSE s

\* str.strip(): drop leading and trailing whitespace
strip(s) == rstrip(lstrip(s, Whitespace), Whitespace)

\* ---------------------------------------------------------- spreadsheet cells
\* A cell value as openpyxl hands it over: None, a text, or a number.
NoneCell == [kind |-> "none", val |-> <<>>]

TextCell(s) == [kind |-> "text", val |-> s]

IntCell(n) == [kind |-> "int", val |-> <<n>>]

DigitChar == <<"0", "1", "2", "3", "4", "5", "6", "7", "8", "9">>

RECURSIVE IntToText(_)
\* str(n) of a non-negative integer: its decimal digits
IntToText(n) ==
    IF n < 10 THEN <<DigitChar[n + 1]>>
    ELSE IntToText(n \div 10) \o <<DigitChar[(n % 10) + 1]>>

\* str(cell) for a cell that is not None
Str(cell) == IF cell.kind = "int" THEN IntToText(cell.val[1]) ELSE cell.val

\* ------------------------------------------------------------- load_mapping
\* the assignment replaced by "insert unless present"
DictSetKeepFirst(d, k, v) ==
    IF \E i \in 1..Len(d) : d[i][1] = k THEN d ELSE Append(d, <<k, v>>)

\* mapping[key] = value on a dict kept as a sequence of <<key, value>> in
\* insertion order: an existing key keeps its position and gets the value.

DictSet(d, k, v) ==
    IF \E i \in 1..Len(d) : d[i][1] = k
    THEN [i \in 1..Len(d) |-> IF d[i][1] = k THEN <<k, v>> ELSE d[i]]
    ELSE Append(d, <<k, v>>)

\* source_name of a row
SourceName(row) ==
    IF row[1].kind # "none" THEN strip(Str(row[1])) ELSE <<>>

\* dest_name of a row
DestName(row) ==
    IF Len(row) > 1 /\ row[2].kind # "none" THEN strip(Str(row[2])) ELSE <<>>

RECURSIVE LoadRows(_, _)
\* the loop of load_mapping over the rows still to read
LoadRows(rs, d) ==
    IF rs = <<>> THEN d
    ELSE LET row == Head(rs)
         IN  IF row = <<>> THEN LoadRows(Tail(rs), d)
             ELSE IF SourceName(row) # <<>> /\ DestName(row) # <<>>
                  THEN LoadRows(Tail(rs), DictSet(d, SourceName(row), DestName(row)))
                  ELSE LoadRows(Tail(rs), d)

load_mapping(rs) == LoadRows(rs, <<>>)

\* ------------------------------------------------------------ match_mapping
Wildcard == {"*"}

\* the test of line 112 against the running best length
BetterGE(len, best_len) == len >= best_len

Better(len, best_len) == len > best_len

\* the guard of line 110 dropped
SkipPrefixNever(prefix) == FALSE

SkipPrefix(prefix) == prefix = <<>>

RECURSIVE MatchLoop(_, _, _, _, _)
\* the loop of match_mapping from entry i on, with the running best
MatchLoop(name, d, i, best_match, best_len) ==
    IF i > Len(d) THEN best_match
    ELSE LET prefix == rstrip(d[i][1], Wildcard)
         IN  IF SkipPrefix(prefix)
             THEN MatchLoop(name, d, i + 1, best_match, best_len)
             ELSE IF startswith(name, prefix) /\ Better(Len(prefix), best_len)
                  THEN MatchLoop(name, d, i + 1, Some(d[i][2]), Len(prefix))
                  ELSE MatchLoop(name, d, i + 1, best_match, best_len)

match_mapping(name, d) == MatchLoop(name, d, 1, NoneVal, -1)

\* ---------------------------------------------------------------- patterns
Digits == {"0", "1", "2", "3", "4", "5", "6", "7", "8", "9"}

DataTramSonTayQN ==
    <<"D", "a", "t", "a", "T", "r", "a", "m", "S", "o", "n", "T", "a", "y", "Q", "N">>

level1_pattern == DataTramSonTayQN \o <<"*">>

SHORT == <<"S", "H", "O", "R", "T">>

RECURSIVE fnmatch(_, _)
\* the match of a glob pattern whose only special character is "*"
fnmatch(s, p) ==
    IF p = <<>> THEN s = <<>>
    ELSE IF Head(p) = "*"
         THEN \E k \in 0..Len(s) : fnmatch(SubSeq(s, k + 1, Len(s)), Tail(p))
         ELSE s # <<>> /\ Head(s) = Head(p) /\ fnmatch(Tail(s), Tail(p))

\* \d{n} at position pos
DigitsAt(s, pos, n) ==
    /\ pos + n - 1 <= Len(s)
    /\ \A i \in pos..(pos + n - 1) : s[i] \in Digits

\* "$" at position pos: the end of the string, or just before a final newline
RegexEnd(s, pos) ==
    \/ pos = Len(s) + 1
    \/ pos = Len(s) /\ s[pos] = "\n"

\* re.compile(r"^\d{6}$").match(s)
yymmdd_re(s) == DigitsAt(s, 1, 6) /\ RegexEnd(s, 7)

\* re.compile(r"^\d{8}$").match(s)
yymmddhh_re(s) == DigitsAt(s, 1, 8) /\ RegexEnd(s, 9)

\* re.compile(r"^\d{8}\.\d{2}$").match(s)
filename_re(s) ==
    /\ DigitsAt(s, 1, 8)
    /\ Len(s) >= 9 /\ s[9] = "."
    /\ DigitsAt(s, 10, 2)
    /\ RegexEnd(s, 12)

\* ---------------------------------------------------------- the source tree
\* Path.is_dir() and Path.is_file() below source_root
is_dir(t, p) == \E n \in t : n.path = p /\ n.kind = "dir"

is_file(t, p) == \E n \in t : n.path = p /\ n.kind = "file"

\* Path.iterdir(): the entries of directory p, each once
iterdir(t, p) ==
    {n.path : n \in {m \in t : Len(m.path) = Len(p) + 1
                               /\ SubSeq(m.path, 1, Len(p)) = p}}

\* source_root.glob(pattern): the entries of the root whose name matches
glob(t, pattern) == {p \in iterdir(t, <<>>) : fnmatch(p[1], pattern)}

\* Path.name
PathName(p) == p[Len(p)]

\* --------------------------------------------------------- destination paths
dest_root == <<"D">>

\* the "/" of pathlib: an absolute segment replaces what is to its left
PathJoin(base, seg) ==
    IF seg # <<>> /\ seg[1] = "/" THEN <<seg>> ELSE Append(base, seg)

\* dest_dir with the source folder name in place of the mapped one
DestDirUnmapped(level1, mapped, day_name, hour_name) ==
    PathJoin(PathJoin(PathJoin(<<dest_root>>, level1), day_name), hour_name)

\* dest_dir = dest_root / mapped_level1 / day_name / hour_name
DestDir(level1, mapped, day_name, hour_name) ==
    PathJoin(PathJoin(PathJoin(<<dest_root>>, mapped), day_name), hour_name)

\* Path.exists() in the destination
exists(files, dirs, p) == p \in DOMAIN files \/ p \in dirs

\* the directories mkdir(parents=True, exist_ok=True) leaves in place
Parents(p) == {SubSeq(p, 1, k) : k \in 1..Len(p)}

\* shutil.copy2(src, dst) on the destination files
Copy2(files, src, dst) ==
    [p \in DOMAIN files \cup {dst} |-> IF p = dst THEN src ELSE files[p]]

\* a copy that failed part way: the destination holds an incomplete file
PartialData == << <<"partial">> >>

OldData == << <<"old">> >>

EmptyFiles == [p \in {} |-> OldData]

\* ------------------------------------------------------------------- main
EnvOk == [source_exists |-> TRUE, mapping_exists |-> TRUE, have_openpyxl |-> TRUE]

GenIdle == [depth |-> 0, level1 |-> {}, level1_dir |-> <<>>,
            days |-> {}, day_dir |-> <<>>, hours |-> {}, hour_dir |-> <<>>,
            files |-> {}]

NoItem == [level1_name |-> <<>>, day_name |-> <<>>, hour_name |-> <<>>,
           data_file |-> <<>>]

\* no check of the source root
ConfigErrorNoSourceCheck(e) == ~e.mapping_exists \/ ~e.have_openpyxl

\* the three SystemExit conditions of main and ensure_openpyxl_available
ConfigError(e) == ~e.source_exists \/ ~e.mapping_exists \/ ~e.have_openpyxl

\* main up to the call of copy_files: the checks, load_mapping, and the
\* creation of the generator
MainStart ==
    /\ pc = "main"
    /\ IF ConfigError(env)
       THEN /\ pc' = "exited"
            /\ exit_status' = 1
            /\ out' = Append(out, <<"ERROR">>)
            /\ UNCHANGED <<mapping, gen>>
       ELSE /\ pc' = "walk"
            /\ mapping' = load_mapping(rows)
            /\ gen' = [GenIdle EXCEPT !.depth = 1,
                                      !.level1 = glob(tree, level1_pattern)]
            /\ UNCHANGED <<exit_status, out>>
    /\ UNCHANGED <<rows, env, args, tree, dest0, item, level1_name,
                   mapped_level1, dest_files, dest_dirs, copied_count,
                   yielded, copy_log>>

\* --------------------------------------------------------- iter_source_files
walkFrame == <<rows, env, args, tree, dest0, mapping, level1_name,
               mapped_level1, dest_files, dest_dirs, copied_count, out,
               exit_status, copy_log>>

\* the loop over the level-1 directories: take the next one, enter its SHORT
WalkLevel1 ==
    /\ pc = "walk" /\ gen.depth = 1
    /\ \E d \in gen.level1 :
          LET short_dir == Append(d, SHORT)
          IN  IF is_dir(tree, d) /\ is_dir(tree, short_dir)
              THEN gen' = [gen EXCEPT !.level1 = @ \ {d}, !.level1_dir = d,
                                      !.days = iterdir(tree, short_dir),
                                      !.depth = 2]
              ELSE gen' = [gen EXCEPT !.level1 = @ \ {d}]
    /\ UNCHANGED <<pc, item, yielded>>
    /\ UNCHANGED walkFrame

\* the loop over the day directories of the current SHORT
WalkDay ==
    /\ pc = "walk" /\ gen.depth = 2
    /\ IF gen.days = {}
       THEN gen' = [gen EXCEPT !.depth = 1]
       ELSE \E d \in gen.days :
              IF is_dir(tree, d) /\ yymmdd_re(PathName(d))
              THEN gen' = [gen EXCEPT !.days = @ \ {d}, !.day_dir = d,
                                      !.hours = iterdir(tree, d), !.depth = 3]
              ELSE gen' = [gen EXCEPT !.days = @ \ {d}]
    /\ UNCHANGED <<pc, item, yielded>>
    /\ UNCHANGED walkFrame

\* the loop over the hour directories of the current day
WalkHour ==
    /\ pc = "walk" /\ gen.depth = 3
    /\ IF gen.hours = {}
       THEN gen' = [gen EXCEPT !.depth = 2]
       ELSE \E d \in gen.hours :
              IF is_dir(tree, d) /\ yymmddhh_re(PathName(d))
              THEN gen' = [gen EXCEPT !.hours = @ \ {d}, !.hour_dir = d,
                                      !.files = iterdir(tree, d), !.depth = 4]
              ELSE gen' = [gen EXCEPT !.hours = @ \ {d}]
    /\ UNCHANGED <<pc, item, yielded>>
    /\ UNCHANGED walkFrame

\* the loop over the entries of the current hour: yield the data files
WalkFile ==
    /\ pc = "walk" /\ gen.depth = 4
    /\ IF gen.files = {}
       THEN /\ gen' = [gen EXCEPT !.depth = 3]
            /\ UNCHANGED <<pc, item, yielded>>
       ELSE \E f \in gen.files :
              /\ gen' = [gen EXCEPT !.files = @ \ {f}]
              /\ IF is_file(tree, f) /\ filename_re(PathName(f))
                 THEN LET t == [level1_name |-> PathName(gen.level1_dir),
                                day_name |-> PathName(gen.day_dir),
                                hour_name |-> PathName(gen.hour_dir),
                                data_file |-> f]
                      IN  /\ item' = t
                          /\ yielded' = Append(yielded, t)
                          /\ pc' = "body"
                 ELSE UNCHANGED <<pc, item, yielded>>
    /\ UNCHANGED walkFrame

\* ---------------------------------------------------------------- copy_files
\* "if not mapped_level1": None or the empty string
NoMapping(m) == m.isNone \/ m.val = <<>>

\* a routing miss written as "break"
AfterMissBreak == "break"

\* a routing miss ends with "continue": the generator is resumed
AfterMiss == "walk"

\* the existence test of line 133 inverted
ShouldSkipInverted(skip_existing, files, dirs, dest_dir, dest_file) ==
    skip_existing /\ ~exists(files, dirs, dest_file)

\* "if skip_existing and dest_file.exists()"
ShouldSkip(skip_existing, files, dirs, dest_dir, dest_file) ==
    skip_existing /\ exists(files, dirs, dest_file)

\* the test of line 136 inverted
IsDryRunInverted(a) == ~a.dry_run

\* "if dry_run"
IsDryRun(a) == a.dry_run

\* the increment moved out of the else branch
CountAlways(c, copied) == c + 1

\* "copied_count += 1" in the branch that has copied, nothing elsewhere
Count(c, copied) == IF copied THEN c + 1 ELSE c

\* the outcomes of the file-system calls of lines 139 and 140
IoOutcomes == {"ok", "mkdir_error", "copy_error"}

\* the body of the loop of copy_files for the yielded tuple
CopyBody ==
    /\ pc = "body"
    /\ level1_name' = item.level1_name
    /\ mapped_level1' = match_mapping(item.level1_name, mapping)
    /\ LET m == mapped_level1'
           dest_dir == DestDir(item.level1_name, m.val, item.day_name,
                               item.hour_name)
           dest_file == PathJoin(dest_dir, PathName(item.data_file))
       IN  IF NoMapping(m)
           THEN /\ out' = Append(out, <<"WARN", item.data_file>>)
                /\ pc' = AfterMiss
                /\ UNCHANGED <<dest_files, dest_dirs, copied_count,
                               exit_status, copy_log>>
           ELSE IF ShouldSkip(args.skip_existing, dest_files, dest_dirs,
                              dest_dir, dest_file)
           THEN /\ out' = Append(out, <<"SKIP", dest_file>>)
                /\ pc' = "walk"
                /\ copied_count' = Count(copied_count, FALSE)
                /\ UNCHANGED <<dest_files, dest_dirs, exit_status, copy_log>>
           ELSE IF IsDryRun(args)
           THEN /\ out' = Append(out, <<"DRY RUN", item.data_file, dest_file>>)
                /\ pc' = "walk"
                /\ copied_count' = Count(copied_count, FALSE)
                /\ UNCHANGED <<dest_files, dest_dirs, exit_status, copy_log>>
           ELSE \E io \in IoOutcomes :
                  CASE io = "mkdir_error" ->
                         /\ pc' = "crashed"
                         /\ exit_status' = 1
                         /\ UNCHANGED <<dest_files, dest_dirs, copied_count,
                                        out, copy_log>>
                    [] io = "copy_error" ->
                         /\ dest_dirs' = dest_dirs \cup Parents(dest_dir)
                         /\ dest_files' = Copy2(dest_files, PartialData, dest_file)
                         /\ pc' = "crashed"
                         /\ exit_status' = 1
                         /\ UNCHANGED <<copied_count, out, copy_log>>
                    [] io = "ok" ->
                         /\ dest_dirs' = dest_dirs \cup Parents(dest_dir)
                         /\ dest_files' = Copy2(dest_files, item.data_file, dest_file)
                         /\ copy_log' = Append(copy_log,
                                [src |-> item.data_file, dst |-> dest_file])
                         /\ out' = Append(out, <<"COPIED", item.data_file, dest_file>>)
                         /\ copied_count' = Count(copied_count, TRUE)
                         /\ pc' = "walk"
                         /\ UNCHANGED exit_status
    /\ UNCHANGED <<rows, env, args, tree, dest0, mapping, gen, item, yielded>>

\* the generator is exhausted: copy_files returns, main prints the summary
Finish ==
    /\ pc = "walk" /\ gen.depth = 1 /\ gen.level1 = {}
    /\ pc' = "done"
    /\ exit_status' = 0
    /\ out' = IF ~args.dry_run THEN Append(out, <<"Done", copied_count>>) ELSE out
    /\ UNCHANGED <<rows, env, args, tree, dest0, mapping, gen, item,
                   level1_name, mapped_level1, dest_files, dest_dirs,
                   copied_count, yielded, copy_log>>

\* ------------------------------------------------- inputs of the mapping spec
KeyCells ==
    { NoneCell,
      TextCell(<<"*">>),
      TextCell(<<"a", "*">>),
      TextCell(<<"a", "*", "*">>),
      TextCell(<<"a", "b", "*">>),
      TextCell(<<" ", "a", " ">>) }

ValueCells ==
    { NoneCell, TextCell(<<"X">>), TextCell(<<" ", "Y">>) }

RowSet ==
    {<<k, v>> : k \in KeyCells, v \in ValueCells}
    \cup { <<>>,
           <<TextCell(<<"a", "*">>)>>,
           <<TextCell(<<"a", "*">>), IntCell(17), TextCell(<<"X">>)>>,
           <<TextCell(<<" ">>), TextCell(<<"X">>)>> }

SeqsUpTo(S, n) == UNION {[1..k -> S] : k \in 0..n}

MatchNames == { <<"a">>, <<"a", "b">>, <<"a", "b", "a">>, <<"b", "a">> }

\* ---------------------------------------------------------- the mapping spec
\* everything but the variables of load_mapping and match_mapping
runVars == <<env, args, tree, dest0, gen, item, dest_files, dest_dirs,
             copied_count, out, exit_status, yielded, copy_log>>

InitMap ==
    /\ rows \in SeqsUpTo(RowSet, MaxRows)
    /\ level1_name \in MatchNames
    /\ mapping = <<>>
    /\ mapped_level1 = NoneVal
    /\ pc = "load"
    /\ env = EnvOk
    /\ args = [dry_run |-> FALSE, skip_existing |-> FALSE]
    /\ tree = {}
    /\ dest0 = EmptyFiles
    /\ gen = GenIdle
    /\ item = NoItem
    /\ dest_files = EmptyFiles
    /\ dest_dirs = {}
    /\ copied_count = 0
    /\ out = <<>>
    /\ exit_status = -1
    /\ yielded = <<>>
    /\ copy_log = <<>>

LoadMapping ==
    /\ pc = "load"
    /\ mapping' = load_mapping(rows)
    /\ pc' = "match"
    /\ UNCHANGED <<rows, level1_name, mapped_level1>>
    /\ UNCHANGED runVars

MatchMapping ==
    /\ pc = "match"
    /\ mapped_level1' = match_mapping(level1_name, mapping)
    /\ pc' = "matched"
    /\ UNCHANGED <<rows, level1_name, mapping>>
    /\ UNCHANGED runVars

NextMap == LoadMapping \/ MatchMapping

SpecMap == InitMap /\ [][NextMap]_vars

\* ------------------------------------------------------ inputs of the run
QN_A1 == DataTramSonTayQN \o <<"A", "1">>
QN_A2 == DataTramSonTayQN \o <<"A", "2">>
QN_B == DataTramSonTayQN \o <<"B">>
NotQN == <<"D", "a", "t", "a">>
LONG == <<"L", "O", "N", "G">>
Day == <<"2", "1", "0", "1", "0", "1">>
Day5 == <<"2", "1", "0", "1", "0">>
DayNl == Day \o <<"\n">>
Hour == <<"2", "1", "0", "1", "0", "1", "1", "2">>
HourX == <<"2", "1", "0", "1", "0", "1", "1", "x">>
HourNl == Hour \o <<"\n">>
File1 == Hour \o <<".", "0", "0">>
File2 == Hour \o <<".", "0", "1">>
FileShort == Hour \o <<".", "0">>
FileNl == File1 \o <<"\n">>

Leaf(p, k) == [path |-> p, kind |-> k]

\* the candidate entries of a source tree: data files in place, and entries
\* that break the naming convention at one level
Leaves ==
    {Leaf(<<t, SHORT, Day, Hour, f>>, "file") : t \in {QN_A1, QN_A2, QN_B},
                                              f \in {File1, File2}}
    \cup { Leaf(<<NotQN, SHORT, Day, Hour, File1>>, "file"),
           Leaf(<<QN_A1, LONG, Day, Hour, File1>>, "file"),
           Leaf(<<QN_A1, SHORT, Day5, Hour, File1>>, "file"),
           Leaf(<<QN_A1, SHORT, DayNl, Hour, File1>>, "file"),
           Leaf(<<QN_A1, SHORT, Day, HourX, File1>>, "file"),
           Leaf(<<QN_A1, SHORT, Day, HourNl, File1>>, "file"),
           Leaf(<<QN_A1, SHORT, Day, Hour, FileShort>>, "file"),
           Leaf(<<QN_A1, SHORT, Day, Hour, FileNl>>, "file"),
           Leaf(<<QN_A1>>, "file"),
           Leaf(<<QN_A1, SHORT>>, "file"),
           Leaf(<<QN_A1, SHORT, Day>>, "file"),
           Leaf(<<QN_A1, SHORT, Day, Hour>>, "file"),
           Leaf(<<QN_A1, SHORT, Day, Hour, File1>>, "dir") }

\* the tree that holds the leaves ls: every ancestor is a directory
TreeOf(ls) ==
    ls \cup UNION {{Leaf(SubSeq(l.path, 1, k), "dir") : k \in 1..(Len(l.path) - 1)} :
                    l \in ls}

\* a path is one entry: a file or a directory, never both
Consistent(t) == \A n, m \in t : n.path = m.path => n.kind = m.kind

Trees ==
    {t \in {TreeOf(ls) : ls \in {s \in SUBSET Leaves : Cardinality(s) <= MaxFiles}} :
        Consistent(t)}

Text_Generic == <<"G", "e", "n", "e", "r", "i", "c">>
Text_SiteA == <<"S", "i", "t", "e", "A">>
Text_Abs == <<"/", "a", "b", "s">>

Workbooks ==
    { << <<TextCell(DataTramSonTayQN \o <<"*">>), TextCell(Text_Generic)>>,
         <<TextCell(DataTramSonTayQN \o <<"A", "*">>), TextCell(Text_SiteA)>> >>,
      << <<TextCell(DataTramSonTayQN \o <<"A", "*">>), TextCell(Text_SiteA)>> >>,
      << <<TextCell(<<"*">>), TextCell(Text_Generic)>>,
         <<TextCell(DataTramSonTayQN \o <<"B", "*">>), TextCell(Text_Abs)>> >> }

\* a destination file that is there before the run
OldFile == <<dest_root, Text_SiteA, Day, Hour, File1>>

DestBefore == { EmptyFiles, [p \in {OldFile} |-> OldData] }

DirsOf(files) == UNION {Parents(SubSeq(p, 1, Len(p) - 1)) : p \in DOMAIN files}

Init ==
    /\ env \in [source_exists : BOOLEAN, mapping_exists : BOOLEAN,
                have_openpyxl : BOOLEAN]
    /\ args \in [dry_run : BOOLEAN, skip_existing : BOOLEAN]
    /\ tree \in Trees
    /\ ~env.source_exists => tree = {}
    /\ rows \in Workbooks \cup {<<>>}
    /\ ~env.mapping_exists <=> rows = <<>>
    /\ dest0 \in DestBefore
    /\ dest_files = dest0
    /\ dest_dirs = DirsOf(dest0)
    /\ pc = "main"
    /\ mapping = <<>>
    /\ gen = GenIdle
    /\ item = NoItem
    /\ level1_name = <<>>
    /\ mapped_level1 = NoneVal
    /\ copied_count = 0
    /\ out = <<>>
    /\ exit_status = -1
    /\ yielded = <<>>
    /\ copy_log = <<>>

Next ==
    MainStart \/ WalkLevel1 \/ WalkDay \/ WalkHour \/ WalkFile \/ CopyBody \/ Finish

Spec == Init /\ [][Next]_vars

\* ------------------------------------------------------ claims: the matcher
\* stripped prefix of the i-th mapping entry
PrefixOf(i) == rstrip(mapping[i][1], Wildcard)

\* entries whose stripped prefix is a prefix of the name (the empty one included)
MatchingAll == {i \in 1..Len(mapping) : startswith(level1_name, PrefixOf(i))}

\* entries whose non-empty stripped prefix is a prefix of the name
Matching == {i \in MatchingAll : PrefixOf(i) # <<>>}

\* C1 as stated: match_mapping returns the value of the entry whose stripped
\* prefix is a prefix of the name and strictly longer than every other matching
\* stripped prefix, and returns None exactly when no stripped prefix matches.
C1_AsStated ==
    pc = "matched" =>
        /\ mapped_level1.isNone <=> MatchingAll = {}
        /\ ~mapped_level1.isNone =>
              \E i \in MatchingAll :
                  /\ mapped_level1.val = mapping[i][2]
                  /\ \A j \in MatchingAll \ {i} : Len(PrefixOf(i)) > Len(PrefixOf(j))

\* C1 amended: among the entries whose stripped prefix is non-empty and is a
\* prefix of the name, match_mapping returns the value of the one with the
\* longest stripped prefix, the earliest such entry when several are equally
\* long; it returns None exactly when there is no such entry.
C1_LongestPrefix ==
    pc = "matched" =>
        /\ mapped_level1.isNone <=> Matching = {}
        /\ Matching # {} =>
              \E i \in Matching :
                  /\ mapped_level1 = Some(mapping[i][2])
                  /\ \A j \in Matching \ {i} :
                        \/ Len(PrefixOf(i)) > Len(PrefixOf(j))
                        \/ Len(PrefixOf(i)) = Len(PrefixOf(j)) /\ i < j

\* a later, longer prefix has replaced an earlier, shorter one
C1_Witness ==
    /\ pc = "matched"
    /\ \E i, j \in Matching :
          /\ j < i
          /\ Len(PrefixOf(i)) > Len(PrefixOf(j))
          /\ mapping[i][2] # mapping[j][2]
          /\ mapped_level1 = Some(mapping[i][2])

\* entries whose matching stripped prefix has the greatest length
Tied == {i \in Matching : \A j \in Matching : Len(PrefixOf(i)) >= Len(PrefixOf(j))}

\* index of the first valid row that inserted key k
FirstRowOf(k) ==
    CHOOSE i \in 1..Len(rows) :
        /\ rows[i] # <<>> /\ SourceName(rows[i]) = k /\ DestName(rows[i]) # <<>>
        /\ \A j \in 1..(i - 1) :
              ~(rows[j] # <<>> /\ SourceName(rows[j]) = k /\ DestName(rows[j]) # <<>>)

\* C10: when several entries have matching stripped prefixes of the same
\* greatest length, match_mapping returns the value of the first of them in
\* the mapping's order, and that order is the order in which the spreadsheet
\* rows first inserted the keys.
C10_FirstSeenWinsTies ==
    pc = "matched" /\ Cardinality(Tied) > 1 =>
        /\ \E i \in Tied :
              /\ \A j \in Tied : i <= j
              /\ mapped_level1 = Some(mapping[i][2])
              /\ \A j \in Tied \ {i} : FirstRowOf(mapping[i][1]) < FirstRowOf(mapping[j][1])
        /\ \A i, j \in 1..Len(mapping) :
              i < j => FirstRowOf(mapping[i][1]) < FirstRowOf(mapping[j][1])

\* two entries tie with different values
C10_Witness ==
    /\ pc = "matched"
    /\ \E i, j \in Tied : i < j /\ mapping[i][2] # mapping[j][2]
    /\ ~mapped_level1.isNone

\* ------------------------------------------------------- claims: the loader
\* the text of a cell: empty for None, else its trimmed string form
CellText(row, c) ==
    IF Len(row) >= c /\ row[c].kind # "none" THEN strip(Str(row[c])) ELSE <<>>

\* rows whose first and second cells are both non-empty once trimmed
ValidRows == {i \in 1..Len(rows) : CellText(rows[i], 1) # <<>> /\ CellText(rows[i], 2) # <<>>}

\* C9: the loaded mapping holds exactly the trimmed (first cell, second cell)
\* pairs of the rows whose two cells are non-empty, one entry per first-cell
\* value, with the second cell of the last such row.
C9_LoadMapping ==
    pc # "load" =>
        /\ \A i \in ValidRows :
              (\A j \in ValidRows : j > i => CellText(rows[j], 1) # CellText(rows[i], 1))
              => <<CellText(rows[i], 1), CellText(rows[i], 2)>> \in Range(mapping)
        /\ \A e \in Range(mapping) :
              \E i \in ValidRows :
                  /\ e = <<CellText(rows[i], 1), CellText(rows[i], 2)>>
                  /\ \A j \in ValidRows : j > i => CellText(rows[j], 1) # e[1]
        /\ \A i, j \in 1..Len(mapping) : mapping[i][1] = mapping[j][1] => i = j

\* a key read twice with different values, and a row that is skipped
C9_Witness ==
    /\ pc = "match"
    /\ \E i, j \in ValidRows :
          /\ i < j
          /\ CellText(rows[i], 1) = CellText(rows[j], 1)
          /\ CellText(rows[i], 2) # CellText(rows[j], 2)
    /\ \E i \in 1..Len(rows) : i \notin ValidRows
    /\ mapping # <<>>

\* --------------------------------------------------- claims: the copy loop
\* the destination name match_mapping gives the tuple t
MappedOf(t) == match_mapping(t.level1_name, mapping)

\* dest_root / M / day / hour / file_name for the tuple t, written out: five
\* segments, or four from M on when M is an absolute path
ExpectedDest(t) ==
    LET M == MappedOf(t).val
        file_name == t.data_file[Len(t.data_file)]
    IN  IF M[1] = "/"
        THEN <<M, t.day_name, t.hour_name, file_name>>
        ELSE <<dest_root, M, t.day_name, t.hour_name, file_name>>

\* destination files that are new or hold other content than before the run
Written ==
    {p \in DOMAIN dest_files : p \notin DOMAIN dest0 \/ dest_files[p] # dest0[p]}

C3_DryRunTouchesNothing ==
    args.dry_run =>
        /\ dest_files = dest0
        /\ dest_dirs = DirsOf(dest0)
        /\ copy_log = <<>>
        /\ copied_count = 0

\* a dry run has planned a copy and has ended
C3_Witness ==
    /\ pc = "done" /\ args.dry_run
    /\ \E i \in 1..Len(out) : out[i][1] = "DRY RUN"

\* C4: with skip_existing set, no destination file that exists when a source
\* file is processed is overwritten, be it there before the run or created
\* earlier in the run, and the counter is not incremented for that source file.
C4_SkipExistingNeverOverwrites ==
    [][ args.skip_existing =>
          /\ \A p \in DOMAIN dest_files :
                p \in DOMAIN dest_files' /\ dest_files'[p] = dest_files[p]
          /\ (pc = "body" /\ ~NoMapping(MappedOf(item))
                /\ ExpectedDest(item) \in DOMAIN dest_files)
             => copied_count' = copied_count /\ copy_log' = copy_log ]_vars

\* a file created earlier in the same run has made a later source file skip
C4_Witness ==
    /\ args.skip_existing /\ dest0 = EmptyFiles
    /\ copied_count = 1 /\ Len(yielded) = 2
    /\ out[Len(out)][1] = "SKIP"

\* the data files the walk of tree t reaches with the tests of the code
Walkable(t) ==
    {p \in {n.path : n \in t} :
        /\ Len(p) = 5
        /\ fnmatch(p[1], level1_pattern) /\ is_dir(t, SubSeq(p, 1, 1))
        /\ p[2] = SHORT /\ is_dir(t, SubSeq(p, 1, 2))
        /\ yymmdd_re(p[3]) /\ is_dir(t, SubSeq(p, 1, 3))
        /\ yymmddhh_re(p[4]) /\ is_dir(t, SubSeq(p, 1, 4))
        /\ filename_re(p[5]) /\ is_file(t, p)}

\* the line printed for source file p tells that the loop body has handled it
Handled(p) ==
    \E i \in 1..Len(out) :
        \/ out[i][1] \in {"WARN", "DRY RUN", "COPIED"} /\ out[i][2] = p
        \/ /\ out[i][1] = "SKIP"
           /\ \E k \in 1..Len(yielded) :
                 /\ yielded[k].data_file = p
                 /\ ~NoMapping(MappedOf(yielded[k]))
                 /\ out[i][2] = ExpectedDest(yielded[k])

\* C5: a routing miss writes nothing, leaves the counter alone and resumes the
\* walk, and a run that returns has handled every data file of the tree.
C5_RoutingMissContinues ==
    [][ /\ (pc = "body" /\ NoMapping(MappedOf(item))) =>
              /\ dest_files' = dest_files /\ dest_dirs' = dest_dirs
              /\ copied_count' = copied_count /\ copy_log' = copy_log
              /\ pc' = "walk" /\ gen' = gen
              /\ out' = Append(out, <<"WARN", item.data_file>>)
        /\ pc' = "done" => \A p \in Walkable(tree) : Handled(p)' ]_vars

\* a file was copied after an earlier one had no mapping
C5_Witness ==
    /\ pc = "done"
    /\ \E i, j \in 1..Len(out) :
          i < j /\ out[i][1] = "WARN" /\ out[j][1] = "COPIED"

\* C6: a missing source root, mapping file or spreadsheet library ends the
\* run before any work: nothing is enumerated, nothing is created in the
\* destination, the exit status is non-zero and no summary line is printed.
C6_ConfigErrorIsFatal ==
    (~env.source_exists \/ ~env.mapping_exists \/ ~env.have_openpyxl) =>
        /\ pc \in {"main", "exited"}
        /\ gen = GenIdle /\ yielded = <<>>
        /\ dest_files = dest0 /\ dest_dirs = DirsOf(dest0)
        /\ pc = "exited" =>
              /\ exit_status = 1
              /\ \A i \in 1..Len(out) : out[i][1] # "Done"

\* the library is missing while the source root with files and the mapping
\* file are there
C6_Witness ==
    /\ pc = "exited"
    /\ ~env.have_openpyxl /\ env.source_exists /\ env.mapping_exists
    /\ Walkable(tree) # {} /\ rows # <<>> /\ ~args.dry_run

\* C7: the counter is the number of source files copied so far, no source
\* file is copied twice, and the count printed at the end is that number.
C7_CounterCountsCopies ==
    /\ copied_count = Len(copy_log)
    /\ \A i, j \in 1..Len(copy_log) : copy_log[i].src = copy_log[j].src => i = j
    /\ copied_count = Cardinality({out[i] : i \in {k \in 1..Len(out) : out[k][1] = "COPIED"}})
    /\ (pc = "done" /\ ~args.dry_run) =>
          /\ out[Len(out)][1] = "Done"
          /\ out[Len(out)][2] = Len(copy_log)

\* two files were yielded and one of them was copied
C7_Witness ==
    /\ pc = "done" /\ copied_count = 1 /\ Len(yielded) = 2

\* ------------------------------------------------------ claims: the walker
\* exactly n digits
ExactDigits(s, n) == Len(s) = n /\ \A i \in 1..n : s[i] \in Digits

\* the naming convention of the source side
Conforms(p) ==
    /\ Len(p) = 5
    /\ startswith(p[1], DataTramSonTayQN)
    /\ p[2] = SHORT
    /\ ExactDigits(p[3], 6)
    /\ ExactDigits(p[4], 8)
    /\ Len(p[5]) = 11
    /\ ExactDigits(SubSeq(p[5], 1, 8), 8)
    /\ p[5][9] = "."
    /\ ExactDigits(SubSeq(p[5], 10, 11), 2)

\* C8: the walker yields exactly one tuple for each file whose path follows
\* the naming convention at every level, and no tuple for any other file.
C8_WalkerYieldsConforming ==
    pc = "done" =>
        /\ \A n \in tree :
              (n.kind = "file" /\ Conforms(n.path)) =>
                  Cardinality({i \in 1..Len(yielded) : yielded[i].data_file = n.path}) = 1
        /\ \A i \in 1..Len(yielded) :
              /\ Conforms(yielded[i].data_file)
              /\ is_file(tree, yielded[i].data_file)
              /\ yielded[i].level1_name = yielded[i].data_file[1]
              /\ yielded[i].day_name = yielded[i].data_file[3]
              /\ yielded[i].hour_name = yielded[i].data_file[4]

====
